---- MODULE Spec2Model ----
(***************************************************************************)
(* Chunked long-form audio pipeline of the AudioGenerator component:       *)
(* callGeminiApiWithRetries (services/geminiService.ts) and the            *)
(* handleGenerateAudio / handleStopGeneration handlers                     *)
(* (components/AudioGenerator.tsx).                                        *)
(*                                                                         *)
(* Two specifications share the retry operators:                           *)
(*   RetrySpec  one callGeminiApiWithRetries call against an arbitrary     *)
(*              sequence of remote outcomes;                               *)
(*   Spec       the component: start and stop clicks, remote settlements   *)
(*              and timer expiries interleaved as the JS event loop        *)
(*              allows (one macrotask and its microtasks per step).        *)
(* process.env.API_KEY is a build-time value and is taken as configured.   *)
(*                                                                         *)
(* Further specifications apply one function of the pipeline to inputs     *)
(* drawn from bounded sets:                                                *)
(*   SegSpec      the segmentation loop of handleGenerateAudio;            *)
(*   CombineSpec  combineAudioBuffers;   MixSpec  mixAudioBuffers;         *)
(*   ExportSpec   exportWAV and the conversion of exportMP3;               *)
(* and WorkerSpec / WorkerLiveSpec run exportMP3 against its worker.       *)
(***************************************************************************)
EXTENDS Integers, Sequences, FiniteSets, TLC

VARIABLES
    \* ---- AudioGenerator component state (useState / useRef) ----
    isGeneratingTTS,          \* useState<boolean>
    error,                    \* useState<string|null>, "none" is null
    stopGenerationRef,        \* useRef<boolean>
    totalCharacters,          \* useState<number>
    generatedCharacterCount,  \* useState<number>
    generationProgress,       \* useState<number>, target progress 0..100
    currentAudioBuffer,       \* useState<AudioBuffer|null>: <<>> is null
    generatedAudioBlobUrl,    \* useState<string|null>: <<>> is null
    runs,                     \* invocations of handleGenerateAudio
    disturbances,             \* stop clicks, further start clicks and
                              \* remote failures so far
    \* ---- one stand-alone callGeminiApiWithRetries call ----
    rc,                       \* the call
    ropts,                    \* its RetryOptions
    \* ---- one application of a function of the pipeline ----
    arg,                      \* the arguments
    result,                   \* <<>> before the call, <<value>> after it
    \* ---- exportMP3 and its worker (audioUtils, mp3Worker.js) ----
    mp3Worker,                \* 0 is null, n > 0 the n-th Worker created
    workerMessageId,          \* the next correlation id
    workerPromises,           \* id -> the export whose resolve/reject it holds
    workersCreated,           \* Worker instances created so far
    workerInbox,              \* messages posted to the worker, oldest first
    workerOutbox,             \* responses posted by the worker, not delivered
    exports,                  \* the promises exportMP3 has returned
    \* ---- the decoding contexts of generateSpeech (geminiService) ----
    contextsCreated,          \* new AudioContext(...) evaluated so far
    contextsClosed,           \* dummyAudioContext.close() evaluated so far
    speechResults,            \* how each apiCall of generateSpeech ended
    \* ---- the preview player (hooks/useAudioPlayer) ----
    isPlaying,                \* useState<boolean>
    audioSourceRef,           \* 0 is null, k > 0 the k-th source created
    contextState,             \* audioContextRef: "none" is null, else the
                              \* state of the AudioContext
    sources,                  \* the AudioBufferSourceNodes created so far
    resumeWaiters,            \* playAudio calls awaiting audioContext.resume()
    \* ---- the voice preview of the component (AudioGenerator) ----
    loadingPreviewVoice,      \* useState<string|null>: TRUE is the selected voice
    voiceAudioBuffers,        \* TRUE: the preview of the selected voice is cached
    \* ---- the MP3 download of the component (AudioGenerator) ----
    isExportingMP3,           \* useState<boolean>
    downloads                 \* the exports handleDownloadMP3 is awaiting

compVars == <<isGeneratingTTS, error, stopGenerationRef, totalCharacters,
              generatedCharacterCount, generationProgress, currentAudioBuffer,
              generatedAudioBlobUrl, runs,
              disturbances>>
retryVars == <<rc, ropts>>
fnVars == <<arg, result>>
workerVars == <<mp3Worker, workerMessageId, workerPromises, workersCreated,
                workerInbox, workerOutbox, exports>>
libVars == <<fnVars, workerVars>>
decodeVars == <<contextsCreated, contextsClosed, speechResults>>
playerVars == <<isPlaying, audioSourceRef, contextState, sources,
                resumeWaiters>>
previewVars == <<loadingPreviewVoice, voiceAudioBuffers>>
downloadVars == <<isExportingMP3, downloads>>
sideVars == <<decodeVars, playerVars, previewVars, downloadVars>>
vars == <<compVars, retryVars, libVars, sideVars>>

(***************************************************************************)
(* Program constants                                                       *)
(***************************************************************************)
MAX_TEXT_LENGTH == 70000
MAX_CHARS_PER_AUDIO_CHUNK == 35000
CONCURRENCY_LIMIT == 4

(***************************************************************************)
(* Bounds of the model                                                     *)
(***************************************************************************)
MaxDisturbances == 2    \* stop clicks, start clicks after the first one and
                        \* remote failures explored, taken together
MaxRetriesOpt == 3      \* largest maxRetries explored by RetrySpec

Min(a, b) == IF a < b THEN a ELSE b

(***************************************************************************)
(* parseGeminiError: the fields the retry policy reads.  errorCode 0 and   *)
(* statusMessage "" stand for undefined; msg is the set of substrings of   *)
(* errorMessage that the policy tests for.                                 *)
(***************************************************************************)
NoDelay == -1

EQuota == [errorCode |-> 429, statusMessage |-> "RESOURCE_EXHAUSTED",
           msg |-> {"quota"}, retryDelayMs |-> NoDelay]
EQuotaDelay == [errorCode |-> 429, statusMessage |-> "RESOURCE_EXHAUSTED",
                msg |-> {"quota"}, retryDelayMs |-> 7000]
EOverloaded == [errorCode |-> 503, statusMessage |-> "UNAVAILABLE",
                msg |-> {"overloaded"}, retryDelayMs |-> NoDelay]
EOverloadedDelay == [errorCode |-> 503, statusMessage |-> "UNAVAILABLE",
                     msg |-> {"overloaded"}, retryDelayMs |-> 2500]
EEmpty == [errorCode |-> 0, statusMessage |-> "",
           msg |-> {"emptyAudio"}, retryDelayMs |-> NoDelay]
EForbidden == [errorCode |-> 403, statusMessage |-> "PERMISSION_DENIED",
               msg |-> {"forbidden"}, retryDelayMs |-> NoDelay]
ENotFound == [errorCode |-> 404, statusMessage |-> "NOT_FOUND",
              msg |-> {"notFound"}, retryDelayMs |-> NoDelay]
EOther == [errorCode |-> 400, statusMessage |-> "INVALID_ARGUMENT",
           msg |-> {}, retryDelayMs |-> NoDelay]
EOtherDelay == [errorCode |-> 500, statusMessage |-> "INTERNAL",
                msg |-> {}, retryDelayMs |-> 2500]

Errors == {EQuota, EQuotaDelay, EOverloaded, EOverloadedDelay, EEmpty,
           EForbidden, ENotFound, EOther, EOtherDelay}

isQuotaError(e) ==
    \/ e.errorCode = 429
    \/ e.statusMessage = "RESOURCE_EXHAUSTED"
    \/ "quota" \in e.msg

isModelOverloadedError(e) ==
    \/ e.errorCode = 503
    \/ e.statusMessage = "UNAVAILABLE"
    \/ "overloaded" \in e.msg
    \/ "internal" \in e.msg

isEmptyResponseError(e) == "emptyAudio" \in e.msg \/ "emptyResponse" \in e.msg

isNotFoundKeyError(e) == "notFound" \in e.msg

\* line 117: quota error with an explicit server delay is re-thrown at once
RethrowForCooldown(e) == isQuotaError(e) /\ e.retryDelayMs # NoDelay

RetryableWrong(e) ==
    \/ isModelOverloadedError(e)
    \/ isQuotaError(e)
    \/ isEmptyResponseError(e)
    \/ e.errorCode >= 400

\* line 122: the errors the loop retries
Retryable(e) ==
    \/ isModelOverloadedError(e)
    \/ (isQuotaError(e) /\ e.retryDelayMs = NoDelay)
    \/ isEmptyResponseError(e)

\* lines 141-154: the error thrown when the retries are used up
ExhaustedError(e) ==
    IF isQuotaError(e) THEN "QuotaExhausted"
    ELSE IF isModelOverloadedError(e) THEN "OverloadedExhausted"
    ELSE IF isEmptyResponseError(e) THEN "EmptyExhausted"
    ELSE "PersistentFailure"

\* lines 159-170: the error thrown for a failure that is not retried
NonRetryError(e) ==
    IF "forbidden" \in e.msg THEN "AuthError"
    ELSE IF isNotFoundKeyError(e) THEN "NotFound"
    ELSE "Failure"

(***************************************************************************)
(* callGeminiApiWithRetries as a step machine over a call record.          *)
(*   st         idle | inflight | waiting | resolved | rejected            *)
(*   attempts   invocations of apiCall so far                              *)
(*   waits      the delays handed to setTimeout, in order                  *)
(*   notes      the (delay, retriesLeft) pairs handed to onRetryWait       *)
(*   fails      the failures seen, in order                                *)
(*   thrown     the error the call rejected with                           *)
(***************************************************************************)
IdleCall ==
    [st |-> "idle", retriesLeft |-> 0, delay |-> 0, attempts |-> 0,
     waits |-> <<>>, notes |-> <<>>, fails |-> <<>>, waitFor |-> 0,
     serverDelay |-> FALSE, thrown |-> "none"]

\* lines 98-106: initialise the loop and make the first attempt
InvokeCall(opts) ==
    [IdleCall EXCEPT !.st = "inflight",
                     !.retriesLeft = opts.maxRetries,
                     !.delay = opts.initialDelayMs,
                     !.attempts = 1]

\* line 106: apiCall resolved
OnSuccess(c) == [c EXCEPT !.st = "resolved"]

Reject(c, e, what) ==
    [c EXCEPT !.st = "rejected", !.thrown = what, !.fails = Append(@, e)]

HasRetriesLeftWrong(c) == c.retriesLeft >= 0

\* line 123
HasRetriesLeft(c) == c.retriesLeft > 0

\* line 124
CurrentDelay(c, e) == IF e.retryDelayMs # NoDelay THEN e.retryDelayMs ELSE c.delay

\* lines 107-171: the catch block
OnFailure(c, e, opts) ==
    IF RethrowForCooldown(e) THEN Reject(c, e, "Rethrown")
    ELSE IF Retryable(e) THEN
        IF HasRetriesLeft(c)
        THEN [c EXCEPT !.st = "waiting",
                       !.waitFor = CurrentDelay(c, e),
                       !.serverDelay = (e.retryDelayMs # NoDelay),
                       !.notes = IF opts.onRetryWait
                                 THEN Append(@, <<CurrentDelay(c, e), c.retriesLeft>>)
                                 ELSE @,
                       !.waits = Append(@, CurrentDelay(c, e)),
                       !.fails = Append(@, e)]
        ELSE Reject(c, e, ExhaustedError(e))
    ELSE Reject(c, e, NonRetryError(e))

NextDelayWrong(c) == c.delay * 2

\* lines 134-136
NextDelay(c) == IF ~c.serverDelay THEN c.delay * 2 ELSE c.delay

\* lines 133-138: the timer fired; back to the top of the loop
AfterWait(c) ==
    [c EXCEPT !.st = "inflight",
              !.delay = NextDelay(c),
              !.retriesLeft = @ - 1,
              !.attempts = @ + 1]

Settled(c) == c.st \in {"resolved", "rejected"}

(***************************************************************************)
(* RetrySpec: one call, any options, any sequence of remote outcomes       *)
(***************************************************************************)
RetryOptionSet ==
    [maxRetries : 0..MaxRetriesOpt, initialDelayMs : {500, 1000},
     onRetryWait : BOOLEAN]

CompIdle ==
    /\ isGeneratingTTS = FALSE
    /\ error = "none"
    /\ stopGenerationRef = FALSE
    /\ totalCharacters = 0
    /\ generatedCharacterCount = 0
    /\ generationProgress = 0
    /\ currentAudioBuffer = <<>>
    /\ generatedAudioBlobUrl = <<>>
    /\ runs = <<>>
    /\ disturbances = 0

\* no speech call has decoded anything
DecodeIdle ==
    /\ contextsCreated = 0
    /\ contextsClosed = 0
    /\ speechResults = <<>>

\* useAudioPlayer lines 18-21: the hook when the component mounts
PlayerIdle ==
    /\ isPlaying = FALSE
    /\ audioSourceRef = 0
    /\ contextState = "none"
    /\ sources = <<>>
    /\ resumeWaiters = 0

\* AudioGenerator lines 53-54
PreviewIdle ==
    /\ loadingPreviewVoice = FALSE
    /\ voiceAudioBuffers = FALSE

\* AudioGenerator line 35
DownloadIdle ==
    /\ isExportingMP3 = FALSE
    /\ downloads = {}

SideIdle == DecodeIdle /\ PlayerIdle /\ PreviewIdle /\ DownloadIdle

\* no function of audioUtils is being applied
\* part_002 lines 144-146: the module state of exportMP3 when the page loads
WorkerIdle ==
    /\ mp3Worker = 0
    /\ workerMessageId = 0
    /\ workerPromises = {}
    /\ workersCreated = 0
    /\ workerInbox = <<>>
    /\ workerOutbox = {}
    /\ exports = <<>>

LibIdle ==
    /\ arg = <<>>
    /\ result = <<>>
    /\ WorkerIdle

RetryInit ==
    /\ CompIdle
    /\ SideIdle
    /\ rc = IdleCall
    /\ ropts \in RetryOptionSet
    /\ LibIdle

RInvoke ==
    /\ rc.st = "idle"
    /\ rc' = InvokeCall(ropts)
    /\ UNCHANGED <<compVars, ropts, libVars, sideVars>>

RSucceed ==
    /\ rc.st = "inflight"
    /\ rc' = OnSuccess(rc)
    /\ UNCHANGED <<compVars, ropts, libVars, sideVars>>

RFail(e) ==
    /\ rc.st = "inflight"
    /\ rc' = OnFailure(rc, e, ropts)
    /\ UNCHANGED <<compVars, ropts, libVars, sideVars>>

RWaitDone ==
    /\ rc.st = "waiting"
    /\ rc' = AfterWait(rc)
    /\ UNCHANGED <<compVars, ropts, libVars, sideVars>>

RetryNext ==
    \/ RInvoke
    \/ RSucceed
    \/ \E e \in Errors : RFail(e)
    \/ RWaitDone

RetrySpec == RetryInit /\ [][RetryNext]_vars

(***************************************************************************)
(* Text and segmentation (handleGenerateAudio, lines 253-294).             *)
(* A text is the sequence of its paragraphs (the pieces of                 *)
(* text.split(/\n\s*\n/)); a paragraph is the sequence of its sentences    *)
(* (the pieces of paragraph.split(sentenceRegex)); a sentence is known by  *)
(* its length and its trimmed length.  One separator character stands      *)
(* between two sentences and two between two paragraphs.                   *)
(***************************************************************************)
S(n) == [raw |-> n, trim |-> n]

RECURSIVE SumRaw(_)
SumRaw(para) ==
    IF para = <<>> THEN 0 ELSE Head(para).raw + SumRaw(Tail(para))

ParagraphLength(para) == SumRaw(para) + (IF Len(para) > 0 THEN Len(para) - 1 ELSE 0)

RECURSIVE SumParagraphs(_)
SumParagraphs(text) ==
    IF text = <<>> THEN 0 ELSE ParagraphLength(Head(text)) + SumParagraphs(Tail(text))

\* text.length
TextLength(text) == SumParagraphs(text) + (IF Len(text) > 0 THEN 2 * (Len(text) - 1) ELSE 0)

ParagraphBlankWrong(para) == \E k \in 1..Len(para) : para[k].trim = 0

\* !paragraph.trim()
ParagraphBlank(para) == \A k \in 1..Len(para) : para[k].trim = 0

\* !text.trim()
TextBlank(text) == \A p \in 1..Len(text) : ParagraphBlank(text[p])

EmptyChunk == [len |-> 0, sents |-> <<>>]

FitsWrong(cur, sentence) == sentence.raw <= MAX_CHARS_PER_AUDIO_CHUNK

\* line 266: does the sentence still fit into currentChunk
Fits(cur, sentence) ==
    (IF cur.len > 0 THEN cur.len + sentence.raw + 1 ELSE sentence.raw)
        <= MAX_CHARS_PER_AUDIO_CHUNK

\* line 267: currentChunk += (currentChunk ? ' ' : '') + sentence.trim()
AppendSentence(cur, p, k, sentence) ==
    [len |-> cur.len + (IF cur.len > 0 THEN 1 ELSE 0) + sentence.trim,
     sents |-> Append(cur.sents, <<p, k>>)]

\* lines 263-281: pack the sentences k.. of paragraph p
RECURSIVE PackSentences(_, _, _, _, _)
PackSentences(para, p, k, cur, out) ==
    IF k > Len(para)
    THEN IF cur.len > 0 THEN Append(out, cur) ELSE out
    ELSE IF para[k].trim = 0
         THEN PackSentences(para, p, k + 1, cur, out)
         ELSE IF Fits(cur, para[k])
              THEN PackSentences(para, p, k + 1,
                                 AppendSentence(cur, p, k, para[k]), out)
              ELSE PackSentences(para, p, k + 1,
                                 AppendSentence(EmptyChunk, p, k, para[k]),
                                 IF cur.len > 0 THEN Append(out, cur) ELSE out)

\* lines 259-282: paragraph by paragraph
RECURSIVE PackParagraphs(_, _, _)
PackParagraphs(text, p, out) ==
    IF p > Len(text) THEN out
    ELSE IF ParagraphBlank(text[p])
         THEN PackParagraphs(text, p + 1, out)
         ELSE PackParagraphs(text, p + 1,
                             PackSentences(text[p], p, 1, EmptyChunk, out))

\* lines 255-287: textChunks
Segment(text) ==
    LET packed == PackParagraphs(text, 1, <<>>)
    IN  IF Len(packed) = 0 /\ ~TextBlank(text)
        THEN <<[len |-> TextLength(text), sents |-> <<>>]>>
        ELSE packed

\* texts typed into the component
TextOne == << <<S(12)>> >>
TextFive == << <<S(10)>>, <<S(20)>>, <<S(30)>>, <<S(40)>>, <<S(50)>> >>
Texts == {TextOne, TextFive}

\* line 645
isFormInvalid(text) == TextBlank(text) \/ TextLength(text) > MAX_TEXT_LENGTH

(***************************************************************************)
(* Audio: the buffer generateSpeech returns for chunk j of run r is known  *)
(* by (r, j); a combined buffer is the sequence of the buffers it holds.   *)
(***************************************************************************)
Audio(r, j) == [run |-> r, chunk |-> j]

\* combineAudioBuffers: the samples of the inputs, in input order
CombineAudioBuffers(buffers) == [samples |-> buffers, mixed |-> FALSE]

\* mixAudioBuffers: the speech with the music under it
MixAudioBuffers(speech) == [speech EXCEPT !.mixed = TRUE]

\* exportWAV + URL.createObjectURL: the blob of the buffer
ExportWAV(buffer) == [wavOf |-> buffer]

\* failures injected into the chunk calls of the component: one the loop
\* retries and one it does not
ChunkErrors == {EOverloaded, EForbidden}

\* lines 311-317: the retry options of a chunk call
GenRetryOptions == [maxRetries |-> 3, initialDelayMs |-> 1000, onRetryWait |-> TRUE]

(***************************************************************************)
(* handleGenerateAudio.  A run is one invocation that passed validation:   *)
(* its closure (text, error and totalCharacters as rendered when the       *)
(* button was clicked), its locals (textChunks, orderedBuffers, i) and the *)
(* chunk calls it has issued.  The last six fields are history:            *)
(*   stopSeen      a stop was clicked while the run was live               *)
(*   stopMid       ... while it was dispatching, batches still to start    *)
(*   lateBatch     the run started a batch after that stop                 *)
(*   lateRecorded  the run recorded a chunk result after that stop         *)
(*   lateRetry     a call of the run began a backoff wait with the flag set*)
(*   outOfOrder    a chunk was recorded before a chunk of lower index      *)
(***************************************************************************)
NewRun(id, text) ==
    [id |-> id, pc |-> "resuming", text |-> text,
     errClosure |-> (error # "none"), totalClosure |-> totalCharacters,
     textChunks |-> <<>>, orderedBuffers |-> <<>>, calls |-> <<>>, i |-> 0,
     outcome |-> "none", assembled |-> <<>>,
     stopSeen |-> FALSE, stopMid |-> FALSE, lateBatch |-> FALSE,
     lateRecorded |-> FALSE, lateRetry |-> FALSE, outOfOrder |-> FALSE]

\* the component state a run reads and writes while it executes
Globals ==
    [isGen |-> isGeneratingTTS, err |-> error, stop |-> stopGenerationRef,
     total |-> totalCharacters, count |-> generatedCharacterCount,
     prog |-> generationProgress, buf |-> currentAudioBuffer,
     url |-> generatedAudioBlobUrl]

Live(R) == R.pc \in {"resuming", "dispatching"}

NChunks(R) == Len(R.textChunks)

\* line 306
BatchEnd(R) == Min(R.i + CONCURRENCY_LIMIT, NChunks(R))

\* chunks i .. batchEnd-1 of the code are chunks i+1 .. batchEnd here
InBatch(R, j) == R.i < j /\ j <= BatchEnd(R)

BatchSettled(R) == \A j \in 1..NChunks(R) : InBatch(R, j) => Settled(R.calls[j])

CanAssembleWrong(R, g, valid) == ~g.stop /\ Len(valid) > 0

\* line 350
CanAssemble(R, g, valid) ==
    ~g.stop /\ Len(valid) > 0 /\ Len(valid) = NChunks(R)

FinishWrong(R, g, music) == [run |-> R, g |-> g]

\* lines 346-397: filter, assemble or report, finally.  music: a background
\* track was selected and loaded when the button was clicked (line 359)
Finish(R, g, music) ==
    LET valid == SelectSeq(R.orderedBuffers, LAMBDA b : b # <<>>)
        buffers == [k \in 1..Len(valid) |-> valid[k][1]]
        speech == CombineAudioBuffers(buffers)
        final == IF music THEN MixAudioBuffers(speech) ELSE speech
        fin(gg) == [gg EXCEPT !.isGen = FALSE, !.stop = FALSE, !.prog = 100]
    IN  IF CanAssemble(R, g, valid)
        THEN [run |-> [R EXCEPT !.pc = "done", !.outcome = "Exported",
                                !.assembled = buffers],
              g |-> fin([g EXCEPT !.buf = <<final>>,
                                  !.url = <<ExportWAV(final)>>])]
        ELSE IF g.stop
        THEN [run |-> [R EXCEPT !.pc = "done", !.outcome = "Cancelled"],
              g |-> fin([g EXCEPT !.err = "ErrInterrupted"])]
        ELSE IF Len(valid) # NChunks(R)
        THEN [run |-> [R EXCEPT !.pc = "done", !.outcome = "Failed"],
              g |-> fin([g EXCEPT !.err = "ErrPartial"])]
        ELSE [run |-> [R EXCEPT !.pc = "done"], g |-> fin(g)]

\* lines 304-334: issue the calls of the batch that starts at R.i
StartBatch(R) ==
    [R EXCEPT !.pc = "dispatching",
              !.calls = [j \in 1..NChunks(R) |->
                            IF InBatch(R, j) THEN InvokeCall(GenRetryOptions)
                            ELSE R.calls[j]],
              !.lateBatch = @ \/ R.stopSeen]

\* lines 301-302: loop condition and the stop check at the top of the body
LoopHead(R, g, music) ==
    IF R.i < NChunks(R) /\ ~g.stop
    THEN [run |-> StartBatch(R), g |-> g]
    ELSE Finish(R, g, music)

\* line 341: if (error || stopGenerationRef.current) break
BreakAfterBatch(R, g) == R.errClosure \/ g.stop

\* lines 338-342: the batch has settled
AfterBatch(R, g, music) ==
    IF BreakAfterBatch(R, g)
    THEN Finish(R, g, music)
    ELSE LoopHead([R EXCEPT !.i = @ + CONCURRENCY_LIMIT], g, music)

\* lines 253-299: segmentation and the locals of the dispatch loop
Segmented(R, g, music) ==
    LET chunks == Segment(R.text)
        n == Len(chunks)
        R1 == [R EXCEPT !.textChunks = chunks,
                        !.orderedBuffers = [j \in 1..n |-> <<>>],
                        !.calls = [j \in 1..n |-> IdleCall],
                        !.i = 0]
    IN  IF n = 0
        THEN [run |-> [R1 EXCEPT !.pc = "done", !.outcome = "Failed"],
              g |-> [g EXCEPT !.err = "ErrNoContent", !.isGen = FALSE,
                              !.stop = FALSE, !.prog = 100]]
        ELSE LoopHead(R1, g, music)

\* line 324: the new target progress
ProgressAfter(prev, len, total) ==
    IF total = 0 THEN 100
    ELSE Min(100, prev + ((len * 100) \div total))

RecordBufferWrong(bufs, j, audio) ==
    LET free == {k \in 1..Len(bufs) : bufs[k] = <<>>}
        k0 == CHOOSE k \in free : \A m \in free : k <= m
    IN  [bufs EXCEPT ![k0] = <<audio>>]

\* line 320: orderedBuffers[j] = audioBuffer
RecordBuffer(bufs, j, audio) == [bufs EXCEPT ![j] = <<audio>>]

DropWhenStoppedWrong(g) == FALSE

\* lines 319 and 327: if (stopGenerationRef.current) return null
DropWhenStopped(g) == g.stop

\* lines 318-325: the then handler of chunk j
OnChunkResolved(R, g, j) ==
    IF DropWhenStopped(g) THEN [run |-> R, g |-> g]
    ELSE [run |-> [R EXCEPT !.orderedBuffers =
                                RecordBuffer(@, j, Audio(R.id, j)),
                            !.lateRecorded = @ \/ R.stopSeen,
                            !.outOfOrder = @ \/ \E k \in 1..(j - 1) :
                                InBatch(R, k) /\ ~Settled(R.calls[k])],
          g |-> [g EXCEPT !.count = @ + R.textChunks[j].len,
                          !.prog = ProgressAfter(@, R.textChunks[j].len,
                                                 R.totalClosure)]]

OnChunkRejectedWrong(R, g, j) ==
    [run |-> [R EXCEPT !.pc = "done", !.outcome = "Failed"],
     g |-> [g EXCEPT !.err = "ErrUnexpected", !.isGen = FALSE]]

\* lines 326-331: the catch handler of chunk j
OnChunkRejected(R, g, j) ==
    IF DropWhenStopped(g) THEN [run |-> R, g |-> g]
    ELSE [run |-> R, g |-> [g EXCEPT !.err = "ErrChunk"]]

\* a chunk call moved to c2: run its handlers if it settled, and the rest
\* of the loop if that settled the batch (same microtask checkpoint)
ChunkStep(R, g, j, c2, music) ==
    LET R1 == [R EXCEPT !.calls[j] = c2,
                        !.lateRetry = @ \/ (c2.st = "waiting" /\ g.stop)]
        h == IF c2.st = "resolved" THEN OnChunkResolved(R1, g, j)
             ELSE IF c2.st = "rejected" THEN OnChunkRejected(R1, g, j)
             ELSE [run |-> R1, g |-> g]
    IN  IF Settled(c2) /\ BatchSettled(h.run)
        THEN AfterBatch(h.run, h.g, music)
        ELSE h

Commit(r, b) ==
    /\ runs' = [runs EXCEPT ![r] = b.run]
    /\ isGeneratingTTS' = b.g.isGen
    /\ error' = b.g.err
    /\ stopGenerationRef' = b.g.stop
    /\ totalCharacters' = b.g.total
    /\ generatedCharacterCount' = b.g.count
    /\ generationProgress' = b.g.prog
    /\ currentAudioBuffer' = b.g.buf
    /\ generatedAudioBlobUrl' = b.g.url

\* the state setters of the component, applied together at the end of a step
SetGlobals(g) ==
    /\ isGeneratingTTS' = g.isGen
    /\ error' = g.err
    /\ stopGenerationRef' = g.stop
    /\ totalCharacters' = g.total
    /\ generatedCharacterCount' = g.count
    /\ generationProgress' = g.prog
    /\ currentAudioBuffer' = g.buf
    /\ generatedAudioBlobUrl' = g.url

\* lines 218-251: the click on "Gerar Audio" (rendered and enabled, lines
\* 902-914), up to the first suspension point
HandleGenerateAudio(text, suspended) ==
    /\ ~isGeneratingTTS
    /\ LET g0 == [Globals EXCEPT !.stop = FALSE, !.err = "none",
                                 !.url = <<>>, !.buf = <<>>,
                                 !.total = TextLength(text),
                                 !.count = 0, !.prog = 0]
           r == Len(runs) + 1
       IN  IF TextBlank(text)
           THEN /\ runs' = runs
                /\ SetGlobals([g0 EXCEPT !.err = "ErrEmptyText"])
           ELSE IF TextLength(text) > MAX_TEXT_LENGTH
           THEN /\ runs' = runs
                /\ SetGlobals([g0 EXCEPT !.err = "ErrTooLong"])
           ELSE LET g1 == [g0 EXCEPT !.isGen = TRUE]
                    b == IF suspended
                         THEN [run |-> NewRun(r, text), g |-> g1]
                         ELSE Segmented(NewRun(r, text), g1, FALSE)
                IN  /\ runs' = Append(runs, b.run)
                    /\ isGeneratingTTS' = b.g.isGen
                    /\ error' = b.g.err
                    /\ stopGenerationRef' = b.g.stop
                    /\ totalCharacters' = b.g.total
                    /\ generatedCharacterCount' = b.g.count
                    /\ generationProgress' = b.g.prog
                    /\ currentAudioBuffer' = b.g.buf
                    /\ generatedAudioBlobUrl' = b.g.url

Start(text, suspended) ==
    /\ Len(runs) > 0 => disturbances < MaxDisturbances
    /\ disturbances' = IF Len(runs) > 0 THEN disturbances + 1 ELSE disturbances
    /\ ~isGeneratingTTS
    /\ ~isFormInvalid(text)
    /\ HandleGenerateAudio(text, suspended)
    /\ UNCHANGED <<retryVars, libVars, sideVars>>

\* line 250: audioContext.resume() resolved
ResumeDone(r) ==
    /\ r \in 1..Len(runs)
    /\ runs[r].pc = "resuming"
    /\ Commit(r, Segmented(runs[r], Globals, FALSE))
    /\ UNCHANGED <<disturbances, retryVars, libVars, sideVars>>

\* the remote speech call of chunk j answered with audio; whether a
\* background track was loaded matters only to a step that ends the run
ChunkSucceed(r, j) ==
    /\ r \in 1..Len(runs)
    /\ j \in 1..NChunks(runs[r])
    /\ runs[r].calls[j].st = "inflight"
    /\ LET c2 == OnSuccess(runs[r].calls[j])
           b0 == ChunkStep(runs[r], Globals, j, c2, FALSE)
       IN  \E music \in (IF b0.run.pc = "done" THEN BOOLEAN ELSE {FALSE}) :
               Commit(r, ChunkStep(runs[r], Globals, j, c2, music))
    /\ UNCHANGED <<disturbances, retryVars, libVars, sideVars>>

\* the remote speech call of chunk j failed with e
ChunkFail(r, j, e) ==
    /\ r \in 1..Len(runs)
    /\ j \in 1..NChunks(runs[r])
    /\ runs[r].calls[j].st = "inflight"
    /\ disturbances < MaxDisturbances
    /\ disturbances' = disturbances + 1
    /\ Commit(r, ChunkStep(runs[r], Globals, j,
                           OnFailure(runs[r].calls[j], e, GenRetryOptions),
                           FALSE))
    /\ UNCHANGED <<retryVars, libVars, sideVars>>

\* the backoff timer of chunk j fired
ChunkWaitDone(r, j) ==
    /\ r \in 1..Len(runs)
    /\ j \in 1..NChunks(runs[r])
    /\ runs[r].calls[j].st = "waiting"
    /\ Commit(r, ChunkStep(runs[r], Globals, j, AfterWait(runs[r].calls[j]),
                           FALSE))
    /\ UNCHANGED <<disturbances, retryVars, libVars, sideVars>>

\* lines 401-421: the click on "Parar Geracao" (rendered while generating)
Stop ==
    /\ isGeneratingTTS
    /\ disturbances < MaxDisturbances
    /\ disturbances' = disturbances + 1
    /\ stopGenerationRef' = TRUE
    /\ isGeneratingTTS' = FALSE
    /\ generationProgress' = 0
    /\ error' = "ErrUserStop"
    /\ runs' = [r \in 1..Len(runs) |->
                   IF Live(runs[r])
                   THEN [runs[r] EXCEPT
                            !.stopSeen = TRUE,
                            !.stopMid = @ \/ (runs[r].pc = "dispatching" /\
                                BatchEnd(runs[r]) < NChunks(runs[r]))]
                   ELSE runs[r]]
    /\ UNCHANGED <<totalCharacters, generatedCharacterCount, currentAudioBuffer,
                   generatedAudioBlobUrl, retryVars, libVars, sideVars>>

Init ==
    /\ CompIdle
    /\ SideIdle
    /\ rc = IdleCall
    /\ ropts = GenRetryOptions
    /\ LibIdle

RunIds == 1..(MaxDisturbances + 1)
ChunkIds == 1..5

Next ==
    \/ \E t \in Texts, s \in BOOLEAN : Start(t, s)
    \/ \E r \in RunIds : ResumeDone(r)
    \/ \E r \in RunIds, j \in ChunkIds : ChunkSucceed(r, j)
    \/ \E r \in RunIds, j \in ChunkIds, e \in ChunkErrors : ChunkFail(r, j, e)
    \/ \E r \in RunIds, j \in ChunkIds : ChunkWaitDone(r, j)
    \/ Stop

Spec == Init /\ [][Next]_vars

(***************************************************************************)
(* Properties of the component (Spec)                                      *)
(***************************************************************************)
RunsNow == 1..Len(runs)

ChunksOf(r) == 1..NChunks(runs[r])

SomeRejected(r) == \E j \in ChunksOf(r) : runs[r].calls[j].st = "rejected"

\* the buffers inside the component's current buffer / blob, if any
SamplesOf(holder) == IF holder = <<>> THEN <<>> ELSE holder[1].samples

BlobSamples == IF generatedAudioBlobUrl = <<>> THEN <<>>
               ELSE generatedAudioBlobUrl[1].wavOf.samples

HoldsAudioOf(samples, r) == \E k \in 1..Len(samples) : samples[k].run = r

\* C1: whatever the completion order, slot k of orderedBuffers only ever
\* holds the audio of chunk k, and the sequence handed to
\* combineAudioBuffers is the audio of chunks 1..N in index order.
C1_OrderedAssembly ==
    \A r \in RunsNow :
        /\ \A k \in 1..Len(runs[r].orderedBuffers) :
              runs[r].orderedBuffers[k] # <<>> =>
                  runs[r].orderedBuffers[k] = <<Audio(r, k)>>
        /\ runs[r].outcome = "Exported" =>
              /\ Len(runs[r].assembled) = NChunks(runs[r])
              /\ \A k \in ChunksOf(r) : runs[r].assembled[k] = Audio(r, k)

\* a five-chunk run was assembled after its calls completed out of order
C1_Witness ==
    \E r \in RunsNow :
        /\ runs[r].outcome = "Exported"
        /\ NChunks(runs[r]) = 5
        /\ runs[r].outOfOrder

InFlightCalls ==
    {rj \in RunIds \X ChunkIds :
        /\ rj[1] \in RunsNow
        /\ rj[2] \in ChunksOf(rj[1])
        /\ runs[rj[1]].calls[rj[2]].st = "inflight"}

BatchOf(j) == (j - 1) \div CONCURRENCY_LIMIT

\* C3: at most CONCURRENCY_LIMIT remote speech calls are in flight, and no
\* chunk of a later batch is started before the earlier batches settled.
C3_BoundedConcurrency ==
    /\ Cardinality(InFlightCalls) <= CONCURRENCY_LIMIT
    /\ \A r \in RunsNow : \A j \in ChunksOf(r) : \A k \in ChunksOf(r) :
          (runs[r].calls[j].st # "idle" /\ BatchOf(k) < BatchOf(j))
              => Settled(runs[r].calls[k])

\* C4: a run that was dispatching, with batches still to start, when a stop
\* was clicked starts no further batch and ends Cancelled.
C4_StopEndsSession ==
    \A r \in RunsNow :
        runs[r].stopMid =>
            /\ ~runs[r].lateBatch
            /\ runs[r].pc = "done" => runs[r].outcome = "Cancelled"

\* C5: a run that saw a stop records no chunk result after it and exports
\* nothing.
C5_LateResultsDiscarded ==
    \A r \in RunsNow :
        runs[r].stopSeen =>
            /\ ~runs[r].lateRecorded
            /\ runs[r].outcome # "Exported"

\* C6 as stated: with the stop flag set, a chunk call that fails with a
\* retryable error does not begin a backoff wait.
C6_RetryLoopChecksStop == \A r \in RunsNow : ~runs[r].lateRetry

\* C6 as amended: the retry loop does not look at the stop flag: a call
\* that fails retryably with retries left waits, and a wait that ends
\* re-invokes the operation, stop or no stop.  The flag is read only when
\* the call settles: while it is set, the result is not recorded or counted
\* and no chunk error is reported.
C6_StopCheckedAtSettlement ==
    [][\A r \in RunsNow : \A j \in ChunksOf(r) :
          LET c == runs[r].calls[j]
              c2 == runs'[r].calls[j]
          IN  /\ (c.st = "inflight" /\ Len(c2.fails) > Len(c.fails)
                    /\ c2.fails[Len(c2.fails)] = EOverloaded /\ c.retriesLeft > 0)
                  => c2.st = "waiting"
              /\ (c.st = "waiting" /\ c2 # c)
                  => (c2.st = "inflight" /\ c2.attempts = c.attempts + 1)
              /\ (stopGenerationRef /\ ~Settled(c) /\ Settled(c2))
                  => /\ runs'[r].orderedBuffers = runs[r].orderedBuffers
                     /\ generatedCharacterCount' = generatedCharacterCount
                     /\ error' \in {error, "ErrInterrupted"}]_vars

\* after a stop a call failed, waited, was re-invoked and resolved, and its
\* result was dropped
C6_Witness ==
    \E r \in RunsNow : \E j \in ChunksOf(r) :
        /\ runs[r].lateRetry
        /\ runs[r].calls[j].attempts = 2
        /\ runs[r].calls[j].st = "resolved"
        /\ runs[r].orderedBuffers[j] = <<>>

\* C10: when a chunk call rejects, the calls and slots of its siblings in
\* the batch are untouched, its own slot stays empty, and the loop goes on
\* waiting for the siblings; a sibling that resolves while no stop is
\* pending is recorded in its own slot.
C10_FailureIsolation ==
    [][\A r \in RunsNow : \A j \in ChunksOf(r) :
          LET R == runs[r]
              R2 == runs'[r]
          IN  /\ (R.calls[j].st = "inflight" /\ R2.calls[j].st = "rejected") =>
                    /\ R2.orderedBuffers[j] = <<>>
                    /\ \A k \in ChunksOf(r) \ {j} :
                          InBatch(R, k) =>
                              /\ R2.calls[k] = R.calls[k]
                              /\ R2.orderedBuffers[k] = R.orderedBuffers[k]
                    /\ (\E k \in ChunksOf(r) \ {j} :
                          InBatch(R, k) /\ ~Settled(R.calls[k]))
                          => R2.pc = "dispatching" /\ R2.i = R.i
              /\ (R.calls[j].st = "inflight" /\ R2.calls[j].st = "resolved"
                    /\ ~stopGenerationRef)
                    => R2.orderedBuffers[j] = <<Audio(r, j)>>]_vars

\* chunk 1 was rejected; of its siblings one is recorded and one still runs
C10_Witness ==
    \E r \in RunsNow :
        /\ NChunks(runs[r]) = 5
        /\ runs[r].calls[1].st = "rejected"
        /\ runs[r].orderedBuffers[2] = <<Audio(r, 2)>>
        /\ runs[r].calls[3].st = "inflight"

(***************************************************************************)
(* Properties of callGeminiApiWithRetries (RetrySpec)                      *)
(***************************************************************************)
\* the failures by kind, as the remote end produces them
NonRetryableKinds == {EQuotaDelay, EForbidden, ENotFound, EOther, EOtherDelay}
RetryableKinds == {EQuota, EOverloaded, EOverloadedDelay, EEmpty}

RECURSIVE Pow2(_)
Pow2(n) == IF n = 0 THEN 1 ELSE 2 * Pow2(n - 1)

\* C7: a failure that is Unauthenticated, unclassified, or RateLimited with
\* a server delay ends the call at once: it is the last failure, the call is
\* rejected, and that failure caused no wait, no onRetryWait call and no
\* further invocation, whatever maxRetries and the retries remaining.
C7_NonRetryablePropagates ==
    \A k \in 1..Len(rc.fails) :
        rc.fails[k] \in NonRetryableKinds =>
            /\ k = Len(rc.fails)
            /\ rc.st = "rejected"
            /\ rc.attempts = k
            /\ Len(rc.waits) = k - 1
            /\ Len(rc.notes) = (IF ropts.onRetryWait THEN k - 1 ELSE 0)
            /\ rc.thrown \in {"Rethrown", "AuthError", "NotFound", "Failure"}

\* a first RateLimited failure with a server delay, three retries available
C7_Witness ==
    /\ rc.st = "rejected"
    /\ rc.fails = <<EQuotaDelay>>
    /\ ropts.maxRetries = 3
    /\ rc.attempts = 1
    /\ rc.waits = <<>>

NoDelayBefore(i) ==
    Cardinality({k \in 1..(i - 1) : rc.fails[k].retryDelayMs = NoDelay})

ExpectedWait(i) ==
    IF rc.fails[i].retryDelayMs # NoDelay
    THEN rc.fails[i].retryDelayMs
    ELSE ropts.initialDelayMs * Pow2(NoDelayBefore(i))

\* C8: a call that resolved after k retryable failures made k+1
\* invocations and exactly k waits; a wait after a failure without server
\* delay lasts initialDelay doubled once per earlier such failure, a wait
\* after a failure with a server delay lasts exactly that delay and does
\* not double the backoff; up to maxRetries retryable failures never reject.
C8_BackoffSchedule ==
    /\ rc.st = "resolved" =>
          /\ Len(rc.fails) <= ropts.maxRetries
          /\ Len(rc.waits) = Len(rc.fails)
          /\ rc.attempts = Len(rc.fails) + 1
          /\ \A i \in 1..Len(rc.waits) : rc.waits[i] = ExpectedWait(i)
    /\ (rc.st = "rejected" /\ \A k \in 1..Len(rc.fails) :
                                  rc.fails[k] \in RetryableKinds)
          => Len(rc.fails) > ropts.maxRetries

\* Overloaded, Overloaded with a server delay, Overloaded, then success
C8_Witness ==
    /\ rc.st = "resolved"
    /\ ropts.initialDelayMs = 1000
    /\ rc.fails = <<EOverloaded, EOverloadedDelay, EOverloaded>>
    /\ rc.waits = <<1000, 2500, 2000>>

TerminalFor(e) ==
    IF e = EQuota THEN "QuotaExhausted"
    ELSE IF e \in {EOverloaded, EOverloadedDelay} THEN "OverloadedExhausted"
    ELSE "EmptyExhausted"

\* C9: the operation is invoked at most maxRetries + 1 times; retryable
\* failure number maxRetries + 1 rejects the call with the error of that
\* failure's kind, after maxRetries waits, and nothing follows it.
C9_RetryExhaustion ==
    /\ rc.attempts <= ropts.maxRetries + 1
    /\ Len(rc.waits) <= ropts.maxRetries
    /\ Len(rc.fails) = ropts.maxRetries + 1 => rc.st = "rejected"
    /\ (rc.st = "rejected" /\ rc.fails[Len(rc.fails)] \in RetryableKinds) =>
          /\ Len(rc.fails) = ropts.maxRetries + 1
          /\ rc.attempts = ropts.maxRetries + 1
          /\ Len(rc.waits) = ropts.maxRetries
          /\ rc.thrown = TerminalFor(rc.fails[Len(rc.fails)])

\* four retryable failures of mixed kinds with maxRetries = 3
C9_Witness ==
    /\ rc.st = "rejected"
    /\ ropts.maxRetries = 3
    /\ rc.fails = <<EOverloaded, EQuota, EEmpty, EOverloaded>>
    /\ rc.thrown = "OverloadedExhausted"

(***************************************************************************)
(* Progress of the running session (Spec)                                  *)
(***************************************************************************)
\* C11: when a chunk of a run is recorded (and the run goes on), the target
\* progress grows by the chunk's length as a percentage of the length of
\* the text submitted to that run, capped at 100.
C11_ProgressProportional ==
    [][\A r \in RunsNow : \A j \in ChunksOf(r) :
          (/\ runs[r].orderedBuffers[j] = <<>>
           /\ runs'[r].orderedBuffers[j] # <<>>
           /\ runs'[r].pc # "done")
          => generationProgress' =
                 Min(100, generationProgress +
                          ((runs[r].textChunks[j].len * 100)
                               \div TextLength(runs[r].text)))]_vars

(***************************************************************************)
(* SegSpec: the segmentation loop of handleGenerateAudio applied to a text *)
(* as typed: a sequence of sentences, each with its length, its trimmed    *)
(* length and whether a blank line (a paragraph break) precedes it.        *)
(***************************************************************************)
MaxSentences == 4       \* sentences of a typed text

SentenceKinds ==
    {[raw |-> 2, trim |-> 0],
     [raw |-> 17000, trim |-> 17000],
     [raw |-> 17999, trim |-> 17990],
     [raw |-> 35000, trim |-> 35000],
     [raw |-> 35001, trim |-> 35001],
     [raw |-> 35010, trim |-> 35000]}

TypedItems ==
    {[raw |-> k.raw, trim |-> k.trim, brk |-> b] :
        k \in SentenceKinds, b \in BOOLEAN}

TypedTexts ==
    {t \in UNION {[1..n -> TypedItems] : n \in 1..MaxSentences} : ~t[1].brk}

\* lines 255 and 262: text.split(/\n\s*\n/), paragraph.split(sentenceRegex)
RECURSIVE SplitText(_, _)
SplitText(items, acc) ==
    IF items = <<>> THEN acc
    ELSE LET it == Head(items)
             s == [raw |-> it.raw, trim |-> it.trim]
         IN  IF it.brk \/ acc = <<>>
             THEN SplitText(Tail(items), Append(acc, <<s>>))
             ELSE SplitText(Tail(items),
                            [acc EXCEPT ![Len(acc)] = Append(@, s)])

SegInit ==
    /\ CompIdle
    /\ SideIdle
    /\ rc = IdleCall
    /\ ropts = GenRetryOptions
    /\ arg \in TypedTexts
    /\ result = <<>>
    /\ WorkerIdle

\* lines 253-287 applied to the typed text
SegmentText ==
    /\ result = <<>>
    /\ result' = <<Segment(SplitText(arg, <<>>))>>
    /\ UNCHANGED <<compVars, retryVars, workerVars, arg, sideVars>>

SegNext == SegmentText

SegSpec == SegInit /\ [][SegNext]_vars

(***************************************************************************)
(* Properties of the segmentation (SegSpec)                                *)
(***************************************************************************)
SegParagraphs == SplitText(arg, <<>>)

SentenceAt(id) == SegParagraphs[id[1]][id[2]]

RECURSIVE SumTrim(_)
SumTrim(ids) ==
    IF ids = <<>> THEN 0 ELSE SentenceAt(Head(ids)).trim + SumTrim(Tail(ids))

RECURSIVE ConcatSents(_)
ConcatSents(chunks) ==
    IF chunks = <<>> THEN <<>>
    ELSE Head(chunks).sents \o ConcatSents(Tail(chunks))

RECURSIVE NonBlankFrom(_, _)
NonBlankFrom(text, p) ==
    IF p > Len(text) THEN <<>>
    ELSE SelectSeq([k \in 1..Len(text[p]) |-> <<p, k>>],
                   LAMBDA id : text[p][id[2]].trim > 0)
         \o NonBlankFrom(text, p + 1)

\* C12: every chunk is at most MAX_CHARS_PER_AUDIO_CHUNK long or is one
\* single sentence that is itself longer; a chunk is exactly its sentences
\* (trimmed) joined by one space, so no sentence is truncated; no sentence
\* is in two chunks; the sentences of a chunk are of one paragraph.
C12_ChunkSizeBound ==
    result # <<>> =>
        LET chunks == result[1]
        IN  \A c \in 1..Len(chunks) :
                LET ch == chunks[c]
                IN  /\ \/ ch.len <= MAX_CHARS_PER_AUDIO_CHUNK
                       \/ /\ Len(ch.sents) = 1
                          /\ SentenceAt(ch.sents[1]).raw > MAX_CHARS_PER_AUDIO_CHUNK
                    /\ Len(ch.sents) >= 1
                    /\ ch.len = SumTrim(ch.sents) + Len(ch.sents) - 1
                    /\ \A a, b \in 1..Len(ch.sents) :
                          ch.sents[a][1] = ch.sents[b][1]
                    /\ \A d \in 1..Len(chunks) : \A a \in 1..Len(ch.sents) :
                          \A b \in 1..Len(chunks[d].sents) :
                              ch.sents[a] = chunks[d].sents[b] => c = d /\ a = b

\* an oversized sentence became a chunk of its own next to a chunk that
\* packs two sentences
C12_Witness ==
    /\ result # <<>>
    /\ \E c, d \in 1..Len(result[1]) :
          /\ result[1][c].len > MAX_CHARS_PER_AUDIO_CHUNK
          /\ Len(result[1][c].sents) = 1
          /\ Len(result[1][d].sents) = 2

\* C13: the non-blank sentences read off the chunks in index order are the
\* non-blank sentences of the input in input order, each exactly once; a
\* text that is not blank yields at least one chunk.
C13_SegmentationLossless ==
    result # <<>> =>
        /\ ConcatSents(result[1]) = NonBlankFrom(SegParagraphs, 1)
        /\ ~TextBlank(SegParagraphs) => Len(result[1]) >= 1

\* two paragraphs, a blank sentence skipped, three sentences in two or
\* more chunks
C13_Witness ==
    /\ result # <<>>
    /\ Len(SegParagraphs) = 2
    /\ \E k \in 1..Len(arg) : arg[k].trim = 0
    /\ Len(result[1]) >= 2
    /\ Len(ConcatSents(result[1])) = 3

(***************************************************************************)
(* audioUtils at the level of samples.  An AudioBuffer is its sample rate, *)
(* its number of channels and the samples of each channel (length >= 1, as *)
(* createBuffer requires).  A sample is an integer number of quarters      *)
(* (SampleOne stands for 1.0) and a volume an integer number of halves     *)
(* (GainOne stands for 1.0); these are exact in Float32.  Operations       *)
(* return [ok |-> TRUE, buffer |-> b] or [ok |-> FALSE, error |-> e].      *)
(* In Spec above the same operations are known only by the chunks whose    *)
(* audio they hold.                                                        *)
(***************************************************************************)
SampleOne == 4
GainOne == 2

MaxSamples == 2         \* samples per channel of an input buffer

SampleRates == {24000, 44100}
ChannelCounts == {1, 2}

Negate(samples) == [i \in 1..Len(samples) |-> 0 - samples[i]]

\* channel 1 as given, channel 2 (if any) its inverse
ChannelData(mono, n) == [c \in 1..n |-> IF c = 1 THEN mono ELSE Negate(mono)]

AudioBuffers(values) ==
    {[sampleRate |-> r, numberOfChannels |-> n, data |-> ChannelData(mono, n)] :
        r \in SampleRates, n \in ChannelCounts,
        mono \in UNION {[1..l -> values] : l \in 1..MaxSamples}}

\* AudioBuffer.length
BufferLength(b) == Len(b.data[1])

\* context.createBuffer(1, 1, context.sampleRate)
SilentBuffer(context) ==
    [sampleRate |-> context.sampleRate, numberOfChannels |-> 1,
     data |-> << <<0>> >>]

\* the AudioContext of the component (AudioGenerator.tsx line 85)
Context == [sampleRate |-> 24000]

RECURSIVE ConcatChannel(_, _)
ConcatChannel(buffers, c) ==
    IF buffers = <<>> THEN <<>>
    ELSE Head(buffers).data[c] \o ConcatChannel(Tail(buffers), c)

\* line 64
SameFormat(a, b) ==
    a.sampleRate = b.sampleRate /\ a.numberOfChannels = b.numberOfChannels

combineAudioBuffersWrong(context, buffers) ==
    IF buffers = <<>> THEN [ok |-> TRUE, buffer |-> SilentBuffer(context)]
    ELSE [ok |-> TRUE,
          buffer |-> [sampleRate |-> buffers[1].sampleRate,
                      numberOfChannels |-> buffers[1].numberOfChannels,
                      data |-> [c \in 1..buffers[1].numberOfChannels |->
                                   ConcatChannel(
                                       [k \in 1..Len(buffers) |->
                                           buffers[Len(buffers) + 1 - k]], c)]]]

\* lines 54-80
combineAudioBuffers(context, buffers) ==
    IF buffers = <<>> THEN [ok |-> TRUE, buffer |-> SilentBuffer(context)]
    ELSE IF \E k \in 1..Len(buffers) : ~SameFormat(buffers[k], buffers[1])
    THEN [ok |-> FALSE, error |-> "FormatMismatch"]
    ELSE [ok |-> TRUE,
          buffer |-> [sampleRate |-> buffers[1].sampleRate,
                      numberOfChannels |-> buffers[1].numberOfChannels,
                      data |-> [c \in 1..buffers[1].numberOfChannels |->
                                   ConcatChannel(buffers, c)]]]

(***************************************************************************)
(* CombineSpec: combineAudioBuffers applied to a list of buffers           *)
(***************************************************************************)
MixSamples == {0 - SampleOne, 2, SampleOne}

BufferLists ==
    LET B == AudioBuffers(MixSamples)
    IN  {<<>>} \cup {<<a>> : a \in B} \cup {<<a, b>> : a \in B, b \in B}
               \cup {<<a, b, a>> : a \in B, b \in B}

CombineInit ==
    /\ CompIdle
    /\ SideIdle
    /\ rc = IdleCall
    /\ ropts = GenRetryOptions
    /\ arg \in BufferLists
    /\ result = <<>>
    /\ WorkerIdle

Combine ==
    /\ result = <<>>
    /\ result' = <<combineAudioBuffers(Context, arg)>>
    /\ UNCHANGED <<compVars, retryVars, workerVars, arg, sideVars>>

CombineNext == Combine

CombineSpec == CombineInit /\ [][CombineNext]_vars

(***************************************************************************)
(* Properties of combineAudioBuffers (CombineSpec)                         *)
(***************************************************************************)
RECURSIVE SumLengths(_, _)
SumLengths(buffers, n) ==
    IF n = 0 THEN 0 ELSE BufferLength(buffers[n]) + SumLengths(buffers, n - 1)

AllSameFormat(buffers) ==
    \A k \in 1..Len(buffers) : SameFormat(buffers[k], buffers[1])

\* C14: combining a non-empty list of buffers of one format gives a buffer
\* of that format whose length is the sum of the input lengths and in
\* which, channel by channel, sample i of input n stands unchanged at
\* position (sum of the lengths of inputs 1..n-1) + i; the inputs are as
\* they were.
C14_CombineConcatenates ==
    [][(result = <<>> /\ result' # <<>> /\ arg # <<>> /\ AllSameFormat(arg)) =>
          LET r == result'[1]
          IN  /\ r.ok
              /\ arg' = arg
              /\ r.buffer.sampleRate = arg[1].sampleRate
              /\ r.buffer.numberOfChannels = arg[1].numberOfChannels
              /\ BufferLength(r.buffer) = SumLengths(arg, Len(arg))
              /\ \A c \in 1..arg[1].numberOfChannels :
                    /\ Len(r.buffer.data[c]) = SumLengths(arg, Len(arg))
                    /\ \A n \in 1..Len(arg) :
                          \A i \in 1..BufferLength(arg[n]) :
                              r.buffer.data[c][SumLengths(arg, n - 1) + i]
                                  = arg[n].data[c][i]]_vars

\* A (two samples) then B (one sample, different) then A again, stereo
C14_Witness ==
    /\ result # <<>>
    /\ Len(arg) = 3
    /\ arg[1].numberOfChannels = 2
    /\ BufferLength(arg[1]) = 2
    /\ BufferLength(arg[2]) = 1
    /\ arg[2].data[1][1] # arg[1].data[1][2]
    /\ arg[1].data[1][1] # arg[1].data[1][2]
    /\ result[1].ok
    /\ BufferLength(result[1].buffer) = 5

(***************************************************************************)
(* mixAudioBuffers (lines 250-299)                                         *)
(***************************************************************************)
Max(a, b) == IF a > b THEN a ELSE b

ClampWrong(x) == x

\* Math.max(-1, Math.min(1, x))
Clamp(x) == Max(0 - SampleOne, Min(SampleOne, x))

\* lines 278-295: output sample i of channel c, in samples
MixedSample(speech, music, speechVolume, musicVolume, c, i) ==
    LET fromSpeech == IF i <= Len(speech.data[c])
                      THEN speech.data[c][i] * speechVolume
                      ELSE 0
        fromMusic == IF BufferLength(music) > 0
                     THEN music.data[c][((i - 1) % Len(music.data[c])) + 1]
                              * musicVolume
                     ELSE 0
    IN  Clamp((fromSpeech + fromMusic) \div GainOne)

\* getChannelData(i) of the music throws for a channel it does not have
\* (line 270); nothing else compares the two formats
mixAudioBuffers(context, speech, music, speechVolume, musicVolume) ==
    LET longerLength == Max(BufferLength(speech), BufferLength(music))
    IN  IF music.numberOfChannels < speech.numberOfChannels
        THEN [ok |-> FALSE, error |-> "IndexSizeError"]
        ELSE [ok |-> TRUE,
              buffer |-> [sampleRate |-> speech.sampleRate,
                          numberOfChannels |-> speech.numberOfChannels,
                          data |-> [c \in 1..speech.numberOfChannels |->
                                       [i \in 1..longerLength |->
                                           MixedSample(speech, music,
                                               speechVolume, musicVolume,
                                               c, i)]]]]

(***************************************************************************)
(* MixSpec: mixAudioBuffers applied to a speech buffer, a music buffer and *)
(* two volumes                                                             *)
(***************************************************************************)
Volumes == 0..GainOne

MixArgs ==
    [speech : AudioBuffers(MixSamples), music : AudioBuffers(MixSamples),
     speechVolume : Volumes, musicVolume : Volumes]

MixInit ==
    /\ CompIdle
    /\ SideIdle
    /\ rc = IdleCall
    /\ ropts = GenRetryOptions
    /\ arg \in MixArgs
    /\ result = <<>>
    /\ WorkerIdle

Mix ==
    /\ result = <<>>
    /\ result' = <<mixAudioBuffers(Context, arg.speech, arg.music,
                                   arg.speechVolume, arg.musicVolume)>>
    /\ UNCHANGED <<compVars, retryVars, workerVars, arg, sideVars>>

MixNext == Mix

MixSpec == MixInit /\ [][MixNext]_vars

(***************************************************************************)
(* Properties of mixAudioBuffers (MixSpec)                                 *)
(***************************************************************************)
\* speech sample i scaled, 0 past the end of the speech (eighths)
SpokenAt(c, i) ==
    IF i <= BufferLength(arg.speech)
    THEN arg.speech.data[c][i] * arg.speechVolume ELSE 0

\* the music sample under position i scaled, the music looping (eighths)
LoopedAt(c, i) ==
    arg.music.data[c][((i - 1) % BufferLength(arg.music)) + 1] * arg.musicVolume

\* C15: the mix is as long as the longer input; each of its samples is the
\* speech sample times the speech volume (0 past the end of the speech)
\* plus the looping music sample times the music volume, or exactly 1 if
\* that sum is above 1 and exactly -1 if it is below -1; buffers of one
\* format always mix.
C15_MixFormula ==
    result # <<>> =>
        /\ SameFormat(arg.speech, arg.music) => result[1].ok
        /\ result[1].ok =>
              LET out == result[1].buffer
              IN  /\ BufferLength(out) = Max(BufferLength(arg.speech),
                                             BufferLength(arg.music))
                  /\ \A c \in 1..out.numberOfChannels :
                        /\ Len(out.data[c]) = BufferLength(out)
                        /\ \A i \in 1..BufferLength(out) :
                              LET sum == SpokenAt(c, i) + LoopedAt(c, i)
                                  one == SampleOne * GainOne
                              IN  out.data[c][i] * GainOne =
                                      IF sum > one THEN one
                                      ELSE IF sum < 0 - one THEN 0 - one
                                      ELSE sum

\* two speech samples over one looping music sample: position 2 clips at 1
\* and position 1 does not clip
C15_Witness ==
    /\ result # <<>>
    /\ result[1].ok
    /\ BufferLength(arg.speech) = 2
    /\ BufferLength(arg.music) = 1
    /\ SpokenAt(1, 2) + LoopedAt(1, 2) > SampleOne * GainOne
    /\ result[1].buffer.data[1][2] = SampleOne
    /\ result[1].buffer.data[1][1] \notin {SampleOne, 0 - SampleOne}

\* C16: mixAudioBuffers given a speech and a music buffer that differ in
\* sample rate or in channel count fails and returns no buffer.
C16_FormatMismatchFails ==
    (result # <<>> /\ ~SameFormat(arg.speech, arg.music)) => ~result[1].ok

(***************************************************************************)
(* exportWAV (lines 88-141) and the conversion and message of exportMP3    *)
(* (lines 183-199).  A Blob is the sequence of its bytes.                  *)
(***************************************************************************)
\* the integer part of n / d, as the conversion to an integer type takes it
TruncDiv(n, d) == IF n >= 0 THEN n \div d ELSE 0 - ((0 - n) \div d)

\* the conversion of a number to Int16 (DataView.setInt16, Int16Array)
ToInt16(x) == ((x + 32768) % 65536) - 32768

\* DataView.setUint8 of each character code
RIFFTag == <<82, 73, 70, 70>>
WAVETag == <<87, 65, 86, 69>>
FmtTag == <<102, 109, 116, 32>>
DataTag == <<100, 97, 116, 97>>

Uint32LEWrong(v) ==
    LET lo == v % 65536
        hi == (v \div 65536) % 65536
    IN  <<hi \div 256, hi % 256, lo \div 256, lo % 256>>

\* DataView.setUint32(offset, v, true)
Uint32LE(v) ==
    LET lo == v % 65536
        hi == (v \div 65536) % 65536
    IN  <<lo % 256, lo \div 256, hi % 256, hi \div 256>>

\* DataView.setUint16(offset, v, true)
Uint16LE(v) == LET w == v % 65536 IN <<w % 256, (w \div 256) % 256>>

\* line 110: output.setInt16(offset, s < 0 ? s * 0x8000 : s * 0x7FFF, true)
FloatTo16BitPCM(sample) ==
    LET s == Clamp(sample)
    IN  ToInt16(TruncDiv(IF s < 0 THEN s * 32768 ELSE s * 32767, SampleOne))

\* lines 107-112: one channel
RECURSIVE PCMBytes(_)
PCMBytes(samples) ==
    IF samples = <<>> THEN <<>>
    ELSE Uint16LE(FloatTo16BitPCM(Head(samples))) \o PCMBytes(Tail(samples))

\* lines 128-132: the channels one after the other
RECURSIVE ChannelBytes(_, _)
ChannelBytes(buffer, c) ==
    IF c > buffer.numberOfChannels THEN <<>>
    ELSE PCMBytes(buffer.data[c]) \o ChannelBytes(buffer, c + 1)

\* lines 88-141
exportWAV(audioBuffer) ==
    LET numOfChannels == audioBuffer.numberOfChannels
        sampleRate == audioBuffer.sampleRate
        format == 1
        bitDepth == 16
        totalLength == BufferLength(audioBuffer) * numOfChannels
        dataLength == totalLength * (bitDepth \div 8)
        fileLength == dataLength + 44
    IN  RIFFTag \o Uint32LE(fileLength - 8) \o WAVETag \o FmtTag
        \o Uint32LE(16) \o Uint16LE(format) \o Uint16LE(numOfChannels)
        \o Uint32LE(sampleRate)
        \o Uint32LE(sampleRate * numOfChannels * (bitDepth \div 8))
        \o Uint16LE(numOfChannels * (bitDepth \div 8)) \o Uint16LE(bitDepth)
        \o DataTag \o Uint32LE(dataLength)
        \o ChannelBytes(audioBuffer, 1)

\* line 187: samples[i] = Math.max(-1, Math.min(1, channelData[i])) * 0x7FFF
Mp3Sample(sample) == ToInt16(TruncDiv(Clamp(sample) * 32767, SampleOne))

\* lines 183-197: the message exportMP3 posts to the worker
Mp3Message(id, audioBuffer) ==
    [id |-> id,
     channelData |-> [i \in 1..Len(audioBuffer.data[1]) |->
                         Mp3Sample(audioBuffer.data[1][i])],
     sampleRate |-> audioBuffer.sampleRate,
     numChannels |-> audioBuffer.numberOfChannels,
     quality |-> 5]

(***************************************************************************)
(* ExportSpec: the two exports applied to a buffer                         *)
(***************************************************************************)
ExportSamples == {-6, 0 - SampleOne, -2, -1, 0, 1, 2, SampleOne, 6}

ExportInit ==
    /\ CompIdle
    /\ SideIdle
    /\ rc = IdleCall
    /\ ropts = GenRetryOptions
    /\ arg \in AudioBuffers(ExportSamples)
    /\ result = <<>>
    /\ WorkerIdle

ExportAsWAV ==
    /\ result = <<>>
    /\ result' = <<[op |-> "exportWAV", blob |-> exportWAV(arg)]>>
    /\ UNCHANGED <<compVars, retryVars, workerVars, arg, sideVars>>

\* exportMP3 up to postMessage, for the first message of the page
ExportAsMP3 ==
    /\ result = <<>>
    /\ result' = <<[op |-> "exportMP3", message |-> Mp3Message(0, arg)]>>
    /\ UNCHANGED <<compVars, retryVars, workerVars, arg, sideVars>>

ExportNext == ExportAsWAV \/ ExportAsMP3

ExportSpec == ExportInit /\ [][ExportNext]_vars

(***************************************************************************)
(* Properties of the exports (ExportSpec)                                  *)
(***************************************************************************)
\* little-endian fields of a blob, by byte offset
ReadU16(bytes, off) == bytes[off + 1] + 256 * bytes[off + 2]

\* the n bytes of v, least significant first
RECURSIVE LittleEndian(_, _)
LittleEndian(v, n) ==
    IF n = 0 THEN <<>> ELSE <<v % 256>> \o LittleEndian(v \div 256, n - 1)

\* the 4-byte field at byte offset off
Field32(bytes, off) == SubSeq(bytes, off + 1, off + 4)

ReadI16(bytes, off) == ToInt16(ReadU16(bytes, off))

\* s < 0 ? s * 32768 : s * 32767 for a sample already clamped into [-1, 1]
Asymmetric(sample) ==
    LET s == IF sample > SampleOne THEN SampleOne
             ELSE IF sample < 0 - SampleOne THEN 0 - SampleOne ELSE sample
    IN  IF s < 0 THEN 0 - (((0 - s) * 32768) \div SampleOne)
        ELSE (s * 32767) \div SampleOne

\* C17: every int16 sample exportWAV writes and every int16 sample
\* exportMP3 sends to the worker is the asymmetric encoding of the buffer's
\* sample: 1.0 gives 32767, -1.0 gives -32768, 0.0 gives 0.
C17_AsymmetricInt16 ==
    result # <<>> =>
        IF result[1].op = "exportWAV"
        THEN \A c \in 1..arg.numberOfChannels : \A i \in 1..BufferLength(arg) :
                ReadI16(result[1].blob,
                        44 + 2 * ((c - 1) * BufferLength(arg) + (i - 1)))
                    = Asymmetric(arg.data[c][i])
        ELSE \A i \in 1..BufferLength(arg) :
                result[1].message.channelData[i] = Asymmetric(arg.data[1][i])

\* C18: the WAV blob of a buffer with L samples per channel, C channels and
\* rate R has 44 + 2LC bytes; little-endian, its RIFF size is 36 + 2LC, its
\* format tag 1, its channel count C, its sample rate R, its byte rate 2RC,
\* its block align 2C, its bit depth 16 and its data size 2LC.
C18_WavHeader ==
    (result # <<>> /\ result[1].op = "exportWAV") =>
        LET b == result[1].blob
            L == BufferLength(arg)
            C == arg.numberOfChannels
            R == arg.sampleRate
        IN  /\ Len(b) = 44 + 2 * L * C
            /\ SubSeq(b, 1, 4) = RIFFTag
            /\ Field32(b, 4) = LittleEndian(36 + 2 * L * C, 4)
            /\ SubSeq(b, 9, 12) = WAVETag
            /\ SubSeq(b, 13, 16) = FmtTag
            /\ Field32(b, 16) = LittleEndian(16, 4)
            /\ ReadU16(b, 20) = 1
            /\ ReadU16(b, 22) = C
            /\ Field32(b, 24) = LittleEndian(R, 4)
            /\ Field32(b, 28) = LittleEndian(R * C * 2, 4)
            /\ ReadU16(b, 32) = C * 2
            /\ ReadU16(b, 34) = 16
            /\ SubSeq(b, 37, 40) = DataTag
            /\ Field32(b, 40) = LittleEndian(2 * L * C, 4)

\* a stereo buffer of two samples at 44100 Hz was exported: 52 bytes
C18_Witness ==
    /\ result # <<>>
    /\ result[1].op = "exportWAV"
    /\ arg.numberOfChannels = 2
    /\ arg.sampleRate = 44100
    /\ BufferLength(arg) = 2
    /\ Len(result[1].blob) = 52

(***************************************************************************)
(* exportMP3 (part_002 lines 143-201) and mp3Worker.js (part_001).         *)
(* workerPromises is the set of its entries [id, export]: export k is the  *)
(* k-th promise exportMP3 returned.  An export remembers how it was        *)
(* settled: settles counts the calls of its resolve and reject, by and     *)
(* byId tell what made the first of them.  The worker handles its messages *)
(* one at a time, oldest first; its responses are delivered in any order.  *)
(***************************************************************************)
MaxExports == 3         \* calls of exportMP3

\* the buffers handed to exportMP3
WorkerBuffers ==
    {b \in AudioBuffers({0 - SampleOne}) :
        b.sampleRate = 24000 /\ BufferLength(b) = 1}

NewExport(id, worker) ==
    [id |-> id, worker |-> worker, st |-> "pending", settles |-> 0,
     by |-> "none", byId |-> -1]

\* resolve(blob) or reject(error) of an export: a promise settles once
Settle(e, how, by, byId) ==
    IF e.st = "pending"
    THEN [e EXCEPT !.st = how, !.settles = @ + 1, !.by = by, !.byId = byId]
    ELSE [e EXCEPT !.settles = @ + 1]

\* lines 153-200
exportMP3(audioBuffer) ==
    /\ LET created == (mp3Worker = 0)
           worker == IF created THEN workersCreated + 1 ELSE mp3Worker
           currentId == workerMessageId
           message == Mp3Message(currentId, audioBuffer)
       IN  /\ mp3Worker' = worker
           /\ workersCreated' = IF created THEN workersCreated + 1
                                ELSE workersCreated
           /\ workerMessageId' = workerMessageId + 1
           /\ workerPromises' =
                  {q \in workerPromises : q.id # currentId}
                      \cup {[id |-> currentId, export |-> Len(exports) + 1]}
           /\ exports' = Append(exports, NewExport(currentId, worker))
           /\ workerInbox' = IF created THEN <<message>>
                             ELSE Append(workerInbox, message)
    /\ UNCHANGED workerOutbox

\* a call of exportMP3
ExportMP3(audioBuffer) ==
    /\ Len(exports) < MaxExports
    /\ exportMP3(audioBuffer)
    /\ UNCHANGED <<compVars, retryVars, fnVars, sideVars>>

\* part_001 lines 12-52: the worker handles its oldest message; it answers
\* with the encoded blob, or with an error if lamejs is missing or throws
workerOnMessage(encoded) ==
    /\ workerInbox # <<>>
    /\ workerOutbox' = workerOutbox \cup
           {[id |-> Head(workerInbox).id,
             kind |-> IF encoded THEN "mp3Data" ELSE "error"]}
    /\ workerInbox' = Tail(workerInbox)
    /\ UNCHANGED <<mp3Worker, workerMessageId, workerPromises, workersCreated,
                   exports>>

WorkerOnMessage(encoded) ==
    /\ workerOnMessage(encoded)
    /\ UNCHANGED <<compVars, retryVars, fnVars, sideVars>>

PromiseForWrong(id) ==
    {q \in workerPromises : \A o \in workerPromises : q.id <= o.id}

\* line 159: workerPromises[id]
PromiseFor(id) == {q \in workerPromises : q.id = id}

\* lines 157-167: mp3Worker.onmessage
onmessage(response) ==
    /\ response \in workerOutbox
    /\ workerOutbox' = workerOutbox \ {response}
    /\ LET found == PromiseFor(response.id)
       IN  /\ exports' = [k \in 1..Len(exports) |->
                             IF \E q \in found : q.export = k
                             THEN Settle(exports[k],
                                         IF response.kind = "mp3Data"
                                         THEN "resolved" ELSE "rejected",
                                         "message", response.id)
                             ELSE exports[k]]
           /\ workerPromises' = workerPromises \ found
    /\ UNCHANGED <<mp3Worker, workerMessageId, workersCreated, workerInbox>>

\* a response is delivered to the page
OnMessage(response) ==
    /\ onmessage(response)
    /\ UNCHANGED <<compVars, retryVars, fnVars, sideVars>>

RejectedOnErrorWrong == {}

\* lines 171-174: every outstanding entry
RejectedOnError == workerPromises

\* lines 168-177: mp3Worker.onerror; terminate() discards what the worker
\* still had to handle and to deliver
onerror ==
    /\ mp3Worker # 0
    /\ exports' = [k \in 1..Len(exports) |->
                      IF \E q \in RejectedOnError : q.export = k
                      THEN Settle(exports[k], "rejected", "workerError", -1)
                      ELSE exports[k]]
    /\ workerPromises' = {}
    /\ workerInbox' = <<>>
    /\ workerOutbox' = {}
    /\ mp3Worker' = 0
    /\ UNCHANGED <<workerMessageId, workersCreated>>

\* the worker fails
OnError ==
    /\ onerror
    /\ UNCHANGED <<compVars, retryVars, fnVars, sideVars>>

WorkerInit ==
    /\ CompIdle
    /\ SideIdle
    /\ rc = IdleCall
    /\ ropts = GenRetryOptions
    /\ LibIdle

WorkerAnswers == \E encoded \in BOOLEAN : WorkerOnMessage(encoded)

ResponseArrives == \E response \in workerOutbox : OnMessage(response)

WorkerNext ==
    \/ \E b \in WorkerBuffers : ExportMP3(b)
    \/ WorkerAnswers
    \/ ResponseArrives
    \/ OnError

WorkerSpec == WorkerInit /\ [][WorkerNext]_vars

\* the worker handles every message it holds and every response it posted
\* is delivered, unless the worker is terminated first
WorkerLiveSpec ==
    WorkerSpec /\ WF_vars(WorkerAnswers) /\ WF_vars(ResponseArrives)

(***************************************************************************)
(* Properties of exportMP3 (WorkerSpec, WorkerLiveSpec)                    *)
(***************************************************************************)
ExportsNow == 1..Len(exports)

\* C19: the exports have distinct ids; resolve or reject of an export is
\* called at most once; an export settled by a response was settled by the
\* response that carries its own id, resolved by a blob and rejected by an
\* error; a response leaves every export of another id as it was.
C19_WorkerCorrelation ==
    [][/\ \A k, l \in 1..Len(exports') :
             exports'[k].id = exports'[l].id => k = l
       /\ \A k \in ExportsNow :
             /\ exports'[k].settles <= 1
             /\ exports'[k].by = "message" => exports'[k].byId = exports'[k].id
             /\ \A response \in workerOutbox :
                   (workerOutbox' = workerOutbox \ {response}
                        /\ mp3Worker' = mp3Worker) =>
                       IF response.id = exports[k].id /\ exports[k].st = "pending"
                       THEN exports'[k].st = (IF response.kind = "mp3Data"
                                              THEN "resolved" ELSE "rejected")
                       ELSE exports'[k] = exports[k]]_vars

\* three exports over one worker answered out of order: the second was
\* resolved first, the first was rejected, the third is still pending
C19_Witness ==
    /\ Len(exports) = 3
    /\ \A k \in 1..3 : exports[k].worker = 1
    /\ exports[2].st = "resolved"
    /\ exports[1].st = "rejected" /\ exports[1].by = "message"
    /\ exports[3].st = "pending"
    /\ \E response \in workerOutbox : response.id = exports[3].id

\* C20: a worker error rejects every export outstanding at that moment,
\* empties the pending table and discards the worker; the next exportMP3
\* creates a worker that never existed before; a pending export always has
\* its entry in the table, and every export is eventually settled.
C20_WorkerFailureSettlesAll ==
    /\ [][(mp3Worker # 0 /\ mp3Worker' = 0) =>
              /\ \A k \in ExportsNow :
                    exports[k].st = "pending" =>
                        /\ exports'[k].st = "rejected"
                        /\ exports'[k].by = "workerError"
              /\ workerPromises' = {}]_vars
    /\ [][(mp3Worker = 0 /\ mp3Worker' # 0) =>
              /\ \A k \in ExportsNow : exports[k].worker # mp3Worker'
              /\ exports'[Len(exports')].worker = mp3Worker']_vars
    /\ [](\A k \in ExportsNow :
             exports[k].st = "pending" =>
                 /\ mp3Worker = exports[k].worker
                 /\ \E q \in workerPromises :
                       q.id = exports[k].id /\ q.export = k)
    /\ \A k \in 1..MaxExports :
          (k \in ExportsNow /\ exports[k].st = "pending")
              ~> (k \in ExportsNow /\ exports[k].st # "pending")

\* two exports were outstanding when the worker failed and were rejected;
\* a third one went to a second worker and was resolved
C20_Witness ==
    /\ Len(exports) = 3
    /\ exports[1].by = "workerError" /\ exports[2].by = "workerError"
    /\ exports[1].worker = 1 /\ exports[3].worker = 2
    /\ exports[3].st = "resolved"

(***************************************************************************)
(* Sessions of the component, one after the other (Spec)                   *)
(***************************************************************************)
\* no call of the run has failed so far and none is still under way
AllChunksSucceeded(r) ==
    \A j \in ChunksOf(r) :
        runs[r].calls[j].fails = <<>> /\ runs[r].calls[j].st \in {"idle", "resolved"}

\* C23: a run that ended without any of its calls failing and without a
\* stop clicked while it ran has dispatched every batch and ended Exported,
\* whatever the sessions before it left behind.
C23_StartIndependent ==
    \A r \in RunsNow :
        (runs[r].pc = "done" /\ ~runs[r].stopSeen /\ AllChunksSucceeded(r)) =>
            /\ \A j \in ChunksOf(r) : runs[r].calls[j].st = "resolved"
            /\ runs[r].outcome = "Exported"

\* C26: in a run that saw no stop (so that the error of a rejected chunk
\* was recorded), no chunk of a batch after the batch of a rejected chunk
\* is dispatched.
C26_NoDispatchAfterFailedBatch ==
    \A r \in RunsNow :
        ~runs[r].stopSeen =>
            \A j \in ChunksOf(r) : \A k \in ChunksOf(r) :
                (runs[r].calls[j].st = "rejected" /\ BatchOf(k) > BatchOf(j))
                    => runs[r].calls[k].st = "idle"

\* C27: at most one invocation of handleGenerateAudio is between its
\* validation and its finally block.
C27_SingleRun == Cardinality({r \in RunsNow : Live(runs[r])}) <= 1

RECURSIVE RecordedLength(_, _)
RecordedLength(R, j) ==
    IF j = 0 THEN 0
    ELSE (IF R.orderedBuffers[j] # <<>> THEN R.textChunks[j].len ELSE 0)
         + RecordedLength(R, j - 1)

\* C29: the character count shown is between 0 and the length of the text
\* of the latest session and is the sum of the lengths of the chunks of
\* that session recorded so far.
C29_CharacterCount ==
    Len(runs) > 0 =>
        LET R == runs[Len(runs)]
        IN  /\ 0 <= generatedCharacterCount
            /\ generatedCharacterCount <= TextLength(R.text)
            /\ generatedCharacterCount = RecordedLength(R, NChunks(R))

(***************************************************************************)
(* LiveSpec: the component when the browser and the remote end make        *)
(* progress: audioContext.resume() resolves, every remote call attempt     *)
(* settles and every backoff timer fires.                                  *)
(***************************************************************************)
Resumes == \E r \in RunIds : ResumeDone(r)

AttemptSettles ==
    \E r \in RunIds, j \in ChunkIds :
        \/ ChunkSucceed(r, j)
        \/ \E e \in ChunkErrors : ChunkFail(r, j, e)

TimerFires == \E r \in RunIds, j \in ChunkIds : ChunkWaitDone(r, j)

\* one session: the button is clicked once
LiveStart(text, suspended) == Len(runs) = 0 /\ Start(text, suspended)

LiveNext ==
    \/ \E t \in Texts, s \in BOOLEAN : LiveStart(t, s)
    \/ Resumes
    \/ AttemptSettles
    \/ TimerFires
    \/ Stop

LiveSpec ==
    /\ Init /\ [][LiveNext]_vars
    /\ WF_vars(Resumes) /\ WF_vars(AttemptSettles) /\ WF_vars(TimerFires)

TerminalOutcomes == {"Exported", "Failed", "Cancelled"}

\* C28: every run that passed validation eventually ends, with one of the
\* outcomes Exported, Failed and Cancelled; the step that ends it clears
\* the generating flag, and the outcome of a run that ended never changes.
C28_SessionTerminates ==
    /\ <>[](\A r \in RunsNow : /\ runs[r].pc = "done"
                               /\ runs[r].outcome \in TerminalOutcomes)
    /\ [][\A r \in RunsNow :
             /\ (Live(runs[r]) /\ ~Live(runs'[r])) =>
                    /\ runs'[r].outcome \in TerminalOutcomes
                    /\ ~isGeneratingTTS'
             /\ ~Live(runs[r]) => runs'[r].outcome = runs[r].outcome]_vars

\* a five-chunk run ended Cancelled after one of its calls failed, waited
\* and was invoked again
C28_Witness ==
    \E r \in RunsNow : \E j \in ChunksOf(r) :
        /\ runs[r].pc = "done"
        /\ runs[r].outcome = "Cancelled"
        /\ NChunks(runs[r]) = 5
        /\ runs[r].calls[j].attempts = 2

(***************************************************************************)
(* RequestSpec: handleGenerateAudio invoked with any text, valid or not    *)
(* (the handler validates its text itself, lines 234-241), between         *)
(* sessions whose calls succeed.                                           *)
(***************************************************************************)
TextEmpty == <<>>
TextSpaces == << <<[raw |-> 3, trim |-> 0]>> >>
TextTooLong == << <<S(MAX_CHARS_PER_AUDIO_CHUNK)>>, <<S(MAX_CHARS_PER_AUDIO_CHUNK)>> >>
InvalidTexts == {TextEmpty, TextSpaces, TextTooLong}

\* a start request: the handler runs on the text whatever the text is
Request(text, suspended) ==
    /\ disturbances <= MaxDisturbances
    /\ disturbances' = disturbances + 1
    /\ HandleGenerateAudio(text, suspended)
    /\ UNCHANGED <<retryVars, libVars, sideVars>>

RequestNext ==
    \/ \E t \in Texts \cup InvalidTexts, s \in BOOLEAN : Request(t, s)
    \/ \E r \in RunIds : ResumeDone(r)
    \/ \E r \in RunIds, j \in ChunkIds : ChunkSucceed(r, j)

RequestSpec == Init /\ [][RequestNext]_vars

ValidationErrors == {"ErrEmptyText", "ErrTooLong"}

MaxSpeechCalls == 3     \* attempts of generateSpeech
MaxPayloadBytes == 4    \* bytes of a decoded payload

NoAudio == [audio |-> FALSE, base64ok |-> FALSE, bytes |-> 0]

Payloads ==
    {NoAudio, [audio |-> TRUE, base64ok |-> FALSE, bytes |-> 0]}
        \cup [audio : {TRUE}, base64ok : {TRUE}, bytes : 0..MaxPayloadBytes]

\* part_002 lines 8-17: atob throws on a string that is not base64
decode(payload) ==
    IF payload.base64ok THEN [ok |-> TRUE, bytes |-> payload.bytes]
    ELSE [ok |-> FALSE, bytes |-> 0]

\* part_002 lines 27-44: new Int16Array(data.buffer) throws a RangeError
\* when the byte length is odd
decodeAudioData(bytes, numChannels) ==
    IF bytes % 2 # 0 THEN [ok |-> FALSE, frames |-> 0]
    ELSE [ok |-> TRUE, frames |-> (bytes \div 2) \div numChannels]

\* geminiService lines 283-338: what one apiCall does to the contexts
ApiCall(payload) ==
    IF ~payload.audio
    THEN [outcome |-> "EmptyResponse", frames |-> 0, created |-> 0, closed |-> 0]
    ELSE LET data == decode(payload)
             audioBuffer == decodeAudioData(data.bytes, 1)
         IN  IF ~data.ok
             THEN [outcome |-> "InvalidCharacter", frames |-> 0,
                   created |-> 1, closed |-> 0]
             ELSE IF ~audioBuffer.ok
             THEN [outcome |-> "RangeError", frames |-> 0,
                   created |-> 1, closed |-> 0]
             ELSE [outcome |-> "AudioBuffer", frames |-> audioBuffer.frames,
                   created |-> 1, closed |-> 1]

SpeechAttempt(payload) ==
    /\ Len(speechResults) < MaxSpeechCalls
    /\ LET a == ApiCall(payload)
       IN  /\ contextsCreated' = contextsCreated + a.created
           /\ contextsClosed' = contextsClosed + a.closed
           /\ speechResults' = Append(speechResults,
                                      [outcome |-> a.outcome, frames |-> a.frames])
    /\ UNCHANGED <<compVars, retryVars, libVars, playerVars, previewVars,
                   downloadVars>>

DecodeInit ==
    /\ CompIdle
    /\ SideIdle
    /\ rc = IdleCall
    /\ ropts = GenRetryOptions
    /\ LibIdle

DecodeNext == \E payload \in Payloads : SpeechAttempt(payload)

DecodeSpec == DecodeInit /\ [][DecodeNext]_vars

\* C24: after any sequence of speech call attempts, every decoding context
\* that was created has been closed.
C24_ContextsClosed == contextsCreated = contextsClosed

(***************************************************************************)
(* PlayerSpec: the hook useAudioPlayer under any sequence of playAudio and *)
(* stopAudio calls.  A source that is stopped, or that plays to its end,   *)
(* fires its ended event; the event of a stopped source is delivered in a  *)
(* later task.                                                             *)
(***************************************************************************)
MaxSources == 3         \* playAudio calls

NewSource == [st |-> "playing", endedPending |-> FALSE]

\* lines 31-38 on the source list: stop() the stored source, if any
StoppedSources ==
    [k \in 1..Len(sources) |->
        IF k = audioSourceRef /\ sources[k].st = "playing"
        THEN [st |-> "stopped", endedPending |-> TRUE]
        ELSE sources[k]]

\* lines 50-59: create a source on the list srcs, start it, store it
StartSource(srcs) ==
    /\ sources' = Append(srcs, NewSource)
    /\ audioSourceRef' = Len(srcs) + 1
    /\ isPlaying' = TRUE

\* lines 31-38
stopAudio ==
    /\ sources' = StoppedSources
    /\ audioSourceRef' = 0
    /\ isPlaying' = FALSE
    /\ UNCHANGED <<contextState, resumeWaiters>>

\* a call of stopAudio
StopAudio ==
    /\ stopAudio
    /\ UNCHANGED <<compVars, retryVars, libVars, decodeVars, downloadVars,
                   previewVars>>

\* lines 40-49 and, when the context is running, lines 50-59; created tells
\* the state in which a new AudioContext starts (lines 23-29)
playAudio(created) ==
    LET state == IF contextState = "none" THEN created ELSE contextState
    IN  /\ contextState' = state
        /\ IF state = "suspended"
           THEN /\ resumeWaiters' = resumeWaiters + 1
                /\ sources' = StoppedSources
                /\ audioSourceRef' = 0
                /\ isPlaying' = FALSE
           ELSE /\ StartSource(StoppedSources)
                /\ UNCHANGED resumeWaiters

\* a call of playAudio
PlayAudio(created) ==
    /\ Len(sources) + resumeWaiters < MaxSources
    /\ playAudio(created)
    /\ UNCHANGED <<compVars, retryVars, libVars, decodeVars, downloadVars,
                   previewVars>>

\* line 47 resolved: the rest of playAudio, lines 50-59
ResumeResolved ==
    /\ resumeWaiters > 0
    /\ resumeWaiters' = resumeWaiters - 1
    /\ contextState' = "running"
    /\ StartSource(sources)
    /\ UNCHANGED <<compVars, retryVars, libVars, decodeVars, downloadVars,
                   previewVars>>

\* lines 53-56: source.onended
OnEnded ==
    /\ isPlaying' = FALSE
    /\ audioSourceRef' = 0

\* source k played its buffer to the end
SourceEnds(k) ==
    /\ k \in 1..Len(sources)
    /\ sources[k].st = "playing"
    /\ sources' = [sources EXCEPT ![k] = [st |-> "ended", endedPending |-> FALSE]]
    /\ OnEnded
    /\ UNCHANGED <<contextState, resumeWaiters>>
    /\ UNCHANGED <<compVars, retryVars, libVars, decodeVars, downloadVars,
                   previewVars>>

\* the ended event of the stopped source k is delivered
EndedEventArrives(k) ==
    /\ k \in 1..Len(sources)
    /\ sources[k].endedPending
    /\ sources' = [sources EXCEPT ![k].endedPending = FALSE]
    /\ OnEnded
    /\ UNCHANGED <<contextState, resumeWaiters>>
    /\ UNCHANGED <<compVars, retryVars, libVars, decodeVars, downloadVars,
                   previewVars>>

PlayerInit ==
    /\ CompIdle
    /\ SideIdle
    /\ rc = IdleCall
    /\ ropts = GenRetryOptions
    /\ LibIdle

SourceIds == 1..MaxSources

PlayerNext ==
    \/ \E created \in {"suspended", "running"} : PlayAudio(created)
    \/ StopAudio
    \/ ResumeResolved
    \/ \E k \in SourceIds : SourceEnds(k)
    \/ \E k \in SourceIds : EndedEventArrives(k)

PlayerSpec == PlayerInit /\ [][PlayerNext]_vars

PlayingSources == {k \in 1..Len(sources) : sources[k].st = "playing"}

\* C30: at most one source is started and neither stopped nor ended,
\* isPlaying is true exactly when there is one, and audioSourceRef is it.
C30_PlayerConsistent ==
    /\ Cardinality(PlayingSources) <= 1
    /\ isPlaying <=> PlayingSources # {}
    /\ PlayingSources # {} => audioSourceRef \in PlayingSources

(***************************************************************************)
(* PreviewSpec: one generation session and the voice preview of the        *)
(* component side by side.  The buttons are the rendered ones: both are    *)
(* disabled while overallLoading holds (lines 649, 716 and 914).           *)
(***************************************************************************)
\* line 649 (no cloning or music load is under way here)
overallLoading ==
    isGeneratingTTS \/ isExportingMP3 \/ loadingPreviewVoice \/ isPlaying

ContextStates == {"suspended", "running"}

PreviewsStarted ==
    Len(sources) + resumeWaiters + (IF loadingPreviewVoice THEN 1 ELSE 0)

\* lines 465-490: the click on the preview button; the preview is played
\* from the cache or its speech call is issued
HandlePlayVoicePreview(created) ==
    /\ ~overallLoading
    /\ PreviewsStarted < MaxSources
    /\ IF voiceAudioBuffers
       THEN /\ playAudio(created)
            /\ UNCHANGED <<error, previewVars>>
       ELSE /\ loadingPreviewVoice' = TRUE
            /\ error' = "none"
            /\ UNCHANGED <<voiceAudioBuffers, playerVars>>
    /\ UNCHANGED <<isGeneratingTTS, stopGenerationRef, totalCharacters,
                   generatedCharacterCount, generationProgress,
                   currentAudioBuffer, generatedAudioBlobUrl, runs,
                   disturbances, retryVars, libVars, decodeVars, downloadVars>>

\* lines 492-501 and 508-509: the speech call of the preview resolved
PreviewLoaded(created) ==
    /\ loadingPreviewVoice
    /\ voiceAudioBuffers' = TRUE
    /\ playAudio(created)
    /\ loadingPreviewVoice' = FALSE
    /\ UNCHANGED <<compVars, retryVars, libVars, decodeVars, downloadVars>>

\* lines 502-509: the speech call of the preview rejected
PreviewFailed ==
    /\ loadingPreviewVoice
    /\ disturbances < MaxDisturbances
    /\ disturbances' = disturbances + 1
    /\ error' = "ErrPreview"
    /\ loadingPreviewVoice' = FALSE
    /\ UNCHANGED <<isGeneratingTTS, stopGenerationRef, totalCharacters,
                   generatedCharacterCount, generationProgress,
                   currentAudioBuffer, generatedAudioBlobUrl, runs,
                   retryVars, libVars, decodeVars, downloadVars, playerVars,
                   voiceAudioBuffers>>

\* the click on "Gerar Audio" (line 914), once; the handler stops the
\* preview player (line 221)
PreviewStart(text) ==
    /\ Len(runs) = 0
    /\ ~overallLoading
    /\ ~isFormInvalid(text)
    /\ HandleGenerateAudio(text, FALSE)
    /\ stopAudio
    /\ UNCHANGED <<disturbances, retryVars, libVars, decodeVars, downloadVars,
                   previewVars>>

PreviewInit ==
    /\ CompIdle
    /\ SideIdle
    /\ rc = IdleCall
    /\ ropts = GenRetryOptions
    /\ LibIdle

PreviewNext ==
    \/ \E t \in Texts : PreviewStart(t)
    \/ \E r \in RunIds, j \in ChunkIds : ChunkSucceed(r, j)
    \/ Stop
    \/ \E created \in ContextStates : HandlePlayVoicePreview(created)
    \/ \E created \in ContextStates : PreviewLoaded(created)
    \/ PreviewFailed
    \/ ResumeResolved
    \/ \E k \in SourceIds : SourceEnds(k)

PreviewSpec == PreviewInit /\ [][PreviewNext]_vars

\* a session still has work in progress: it has not ended
GenerationBusy == \E r \in RunsNow : Live(runs[r])

\* a preview is loading, about to play or playing
PreviewActive ==
    loadingPreviewVoice \/ resumeWaiters > 0 \/ PlayingSources # {}

\* C25: a generation session with work in progress and a preview that is
\* loading or playing never exist at the same time.
C25_GenerationExcludesPreview == ~(GenerationBusy /\ PreviewActive)

(***************************************************************************)
(* DownloadSpec: a session whose calls succeed, and the MP3 download of    *)
(* its output through exportMP3 and its worker.  The continuation of       *)
(* handleDownloadMP3 runs in the step that settles its export.             *)
(***************************************************************************)
\* the buffer handed to exportMP3: one sample for each chunk of the output
DownloadBuffer ==
    [sampleRate |-> 24000, numberOfChannels |-> 1,
     data |-> <<[i \in 1..Len(currentAudioBuffer[1].samples) |-> 0]>>]

KeptOutputWrong == [buf |-> <<>>, url |-> <<>>]

\* lines 450-459: catch and finally leave the buffer and the blob URL alone
KeptOutput == [buf |-> currentAudioBuffer, url |-> generatedAudioBlobUrl]

\* lines 442-459: what follows await exportMP3 for the exports settled by
\* this step
DownloadContinues ==
    LET done == {k \in downloads : exports'[k].st # "pending"}
        failed == \E k \in done : exports'[k].st = "rejected"
    IN  /\ downloads' = downloads \ done
        /\ isExportingMP3' = IF done # {} THEN FALSE ELSE isExportingMP3
        /\ error' = IF failed THEN "ErrMp3Export" ELSE error
        /\ currentAudioBuffer' = IF failed THEN KeptOutput.buf
                                 ELSE currentAudioBuffer
        /\ generatedAudioBlobUrl' = IF failed THEN KeptOutput.url
                                    ELSE generatedAudioBlobUrl
        /\ UNCHANGED <<isGeneratingTTS, stopGenerationRef, totalCharacters,
                       generatedCharacterCount, generationProgress, runs,
                       disturbances>>

\* lines 437-442: the click on "Baixar MP3" (rendered at line 875, enabled
\* at line 893), up to await exportMP3
HandleDownloadMP3 ==
    /\ generatedAudioBlobUrl # <<>>
    /\ ~overallLoading
    /\ currentAudioBuffer # <<>>
    /\ Len(exports) < MaxExports
    /\ error' = "none"
    /\ isExportingMP3' = TRUE
    /\ exportMP3(DownloadBuffer)
    /\ downloads' = downloads \cup {Len(exports) + 1}
    /\ UNCHANGED <<isGeneratingTTS, stopGenerationRef, totalCharacters,
                   generatedCharacterCount, generationProgress,
                   currentAudioBuffer, generatedAudioBlobUrl, runs,
                   disturbances, retryVars, fnVars, decodeVars, playerVars,
                   previewVars>>

\* the click on "Gerar Audio" (line 914), once
DownloadStart(text) ==
    /\ Len(runs) = 0
    /\ ~overallLoading
    /\ Start(text, FALSE)

DownloadResponse(response) ==
    /\ onmessage(response)
    /\ DownloadContinues
    /\ UNCHANGED <<retryVars, fnVars, decodeVars, playerVars, previewVars>>

DownloadWorkerError ==
    /\ onerror
    /\ DownloadContinues
    /\ UNCHANGED <<retryVars, fnVars, decodeVars, playerVars, previewVars>>

DownloadInit ==
    /\ CompIdle
    /\ SideIdle
    /\ rc = IdleCall
    /\ ropts = GenRetryOptions
    /\ LibIdle

DownloadNext ==
    \/ \E t \in Texts : DownloadStart(t)
    \/ \E r \in RunIds, j \in ChunkIds : ChunkSucceed(r, j)
    \/ HandleDownloadMP3
    \/ WorkerAnswers
    \/ \E response \in workerOutbox : DownloadResponse(response)
    \/ DownloadWorkerError

DownloadSpec == DownloadInit /\ [][DownloadNext]_vars

DownloadFails ==
    \E k \in downloads : exports[k].st = "pending" /\ exports'[k].st = "rejected"

\* C21: the click on the MP3 button changes only the error message and the
\* exporting flag, and so does the step in which its export is rejected:
\* the exporting flag is cleared, the error is shown, and the current audio
\* buffer and the WAV blob URL are the ones the session exported.
C21_FailedExportKeepsWav ==
    [][/\ HandleDownloadMP3 =>
              UNCHANGED <<isGeneratingTTS, stopGenerationRef, totalCharacters,
                          generatedCharacterCount, generationProgress,
                          currentAudioBuffer, generatedAudioBlobUrl, runs>>
       /\ DownloadFails =>
              /\ error' = "ErrMp3Export"
              /\ ~isExportingMP3'
              /\ currentAudioBuffer' = currentAudioBuffer
              /\ generatedAudioBlobUrl' = generatedAudioBlobUrl
              /\ generatedAudioBlobUrl' # <<>>
              /\ UNCHANGED <<isGeneratingTTS, stopGenerationRef,
                             totalCharacters, generatedCharacterCount,
                             generationProgress, runs>>]_vars

\* the worker answered a download with an error (no encoder) and the
\* five-chunk output of the session is still there
C21_Witness ==
    /\ \E k \in ExportsNow :
          /\ exports[k].st = "rejected"
          /\ exports[k].by = "message"
    /\ error = "ErrMp3Export"
    /\ ~isExportingMP3
    /\ generatedAudioBlobUrl # <<>>
    /\ currentAudioBuffer # <<>>
    /\ Len(currentAudioBuffer[1].samples) = 5

====
